---- MODULE Spec2Model ----
(***************************************************************************)
(* Model of RestfulApiModel (optimistic CRUD over a BaseModel) of          *)
(* mvvm-core.  One engine instance, its three BehaviorSubjects (data,      *)
(* isLoading, error) and the asynchronous calls of fetch / create /        *)
(* update / delete that are in flight on it.  JavaScript runs each         *)
(* continuation to completion, so one action is one run between two        *)
(* awaits.                                                                 *)
(*                                                                         *)
(* Beside the engine the module models three smaller parts, each with its  *)
(* own variable and specification: the evaluation of `new                  *)
(* RestfulApiModel(input)` (ctor, SpecCtor), a Command wrapping an async    *)
(* function (command, SpecCommand) and the selectedItem$ stream of          *)
(* RestfulApiViewModel (viewModel, SpecViewModel).  Each specification      *)
(* keeps the variables of the other parts fixed.                           *)
(*                                                                         *)
(* Strings are modelled as sequences of tokens (the string is their        *)
(* concatenation); <<>> stands for an absent key (undefined).  Empty       *)
(* strings are not in the value domain.                                    *)
(***************************************************************************)
EXTENDS Integers, Sequences, FiniteSets, TLC

VARIABLES data, loading, error, calls, started, shouldValidateSchema, schemaIsArray,
          ctor, command, viewModel

vars == <<data, loading, error, calls, started, shouldValidateSchema, schemaIsArray, ctor, command, viewModel>>

(* ---------------------------- bounds ----------------------------------- *)

\* number of calls of fetch/create/update/delete made on the engine
MaxCalls == 2

\* number of calls of execute made on the command
MaxExecs == 3

(* ---------------------------- values ----------------------------------- *)

Absent == <<>>
S(tok) == <<tok>>
Truthy(v) == v # Absent

Fields == {"id", "name", "updatedAt", "extra"}

\* keys the configured zod object schema declares; the others are stripped by parse
SchemaFields == {"id", "name", "updatedAt"}
RequiredFields == {"id", "name"}

Obj(id, name, updatedAt, extra) ==
  [f \in Fields |-> CASE f = "id" -> id [] f = "name" -> name
                      [] f = "updatedAt" -> updatedAt [] OTHER -> extra]

NoItem == Obj(Absent, Absent, Absent, Absent)

\* { ...a, ...b }
Spread(a, b) == [f \in Fields |-> IF b[f] # Absent THEN b[f] ELSE a[f]]

tempIdPrefix == "temp_"

\* `${tempIdPrefix}${Date.now()}_${Math.random().toString(36).substring(2, 9)}`
generateTempId(now, rnd) == <<tempIdPrefix, now, "_", rnd>>

StartsWithTempPrefix(s) == Len(s) >= 1 /\ s[1] = tempIdPrefix

\* values Date.now() and Math.random() can yield (two calls may draw the same pair)
Clock == {"1700"}
Random == {"k3x", "q9z"}

(* A JavaScript value held by the data cell or handed back by the fetcher:  *)
(* null, an object, an array of values, or a string.                       *)
Null == [kind |-> "null"]
Item(o) == [kind |-> "item", item |-> o]
Coll(s) == [kind |-> "array", items |-> s]
Text(t) == [kind |-> "text", text |-> t]

\* Array.isArray(d)
IsArray(d) == d.kind = "array"
\* v.id ; reading it off null throws a TypeError (ThrowsOnId)
IdOf(v) == IF v.kind = "item" THEN v.item["id"] ELSE Absent
ThrowsOnId(v) == v.kind = "null"
\* originalData && originalData.id === id
HasId(d, id) == d.kind = "item" /\ d.item["id"] = id

AnyNull(s) == \E i \in 1..Len(s) : ThrowsOnId(s[i])

RECURSIVE MapSeq(_, _, _, _)
\* s.map(item => item.id in ids ? repl : item)
MapSeq(s, ids, repl, i) ==
  IF i > Len(s) THEN <<>>
  ELSE <<IF IdOf(s[i]) \in ids THEN repl ELSE s[i]>> \o MapSeq(s, ids, repl, i + 1)

MapById(s, id, repl) == MapSeq(s, {id}, repl, 1)

RECURSIVE FilterSeq(_, _, _)
\* s.filter(item => item.id !== id)
FilterSeq(s, id, i) ==
  IF i > Len(s) THEN <<>>
  ELSE (IF IdOf(s[i]) # id THEN <<s[i]>> ELSE <<>>) \o FilterSeq(s, id, i + 1)

\* s.find(item => item.id === id): the index of the first match, 0 when none
FindIdx(s, id) ==
  IF \E i \in 1..Len(s) : IdOf(s[i]) = id
  THEN CHOOSE i \in 1..Len(s) : IdOf(s[i]) = id /\ \A j \in 1..(i - 1) : IdOf(s[j]) # id
  ELSE 0

\* find reads .id of every element up to the first match
FindThrows(s, id) ==
  LET k == FindIdx(s, id) IN
  \E i \in 1..Len(s) : ThrowsOnId(s[i]) /\ (k = 0 \/ i < k)

(* ---------------------------- errors ----------------------------------- *)

\* an Error object: its kind and the call that created it (object identity)
NoError == [kind |-> "null", call |-> 0]
Err(k, c) == [kind |-> k, call |-> c]

(* ---------------------------- calls ------------------------------------ *)

Calls == 1..MaxCalls

\* The frame of one call: the arguments and locals of the async method, where it
\* is suspended (pc; ids is the array of ids given to fetch), what
\* executeApiRequest handed back (exec*), how its promise
\* settled (outcome, retVal, thrown), and a record of what it did: the values it
\* passed to setData (pubs) and setLoading (loads), how many setLoading calls it
\* had made before each setData (pubAt), the data cell when it was called
\* (preData), the cells just before and after the step that settled it
\* (before, after, errAfter, loadAfter), its place in the order of settlement
\* (rank) and whether another call was in flight during it (overlapped).
IdleCall ==
  [op |-> "none", pc |-> "idle", id |-> Absent, payload |-> NoItem,
   originalData |-> Null, tempItemId |-> Absent, itemToUpdateOriginal |-> NoItem,
   expectedType |-> "none", url |-> <<>>, method |-> "", body |-> NoItem,
   ids |-> <<>>, respKind |-> "",
   execOk |-> FALSE, execData |-> Null, execErr |-> NoError,
   outcome |-> "pending", retVal |-> Null, thrown |-> NoError,
   pubs |-> <<>>, pubAt |-> <<>>, loads |-> <<>>, preData |-> Null, overlapped |-> FALSE,
   before |-> Null, after |-> Null, errAfter |-> NoError, loadAfter |-> FALSE, rank |-> 0]

\* transport calls issued and not yet answered
AwaitingTransport(c) == calls[c].pc \in {"awaitFetcher", "awaitBody"}

(* ---------------------------- the other parts -------------------------- *)

\* the argument of the constructor and the fields of the object it initialises
NoInput ==
  [baseUrl |-> Absent, endpoint |-> Absent, fetcher |-> FALSE,
   validateSchema |-> "undefined", initialData |-> Null]

NoFields ==
  [data |-> Null, isLoading |-> FALSE, error |-> NoError,
   baseUrl |-> Absent, endpoint |-> Absent, fetcher |-> FALSE,
   shouldValidateSchema |-> FALSE]

\* no `new RestfulApiModel(input)` is being evaluated
NoConstruction ==
  [pc |-> "none", input |-> NoInput, this |-> NoFields, thrown |-> NoError,
   instance |-> FALSE]

Execs == 1..MaxExecs

\* The frame of one call of Command.execute: where it is suspended (pc), the
\* value it read off canExecute$ (canExecuteNow), whether it invoked the wrapped
\* function and the error that function failed with (fnError), how its promise
\* settled (outcome, retVal, thrown), and a record of the cells around its steps:
\* executeError$ just before and just after the reset that precedes the
\* invocation (errBeforeInvoke, errAtInvoke), isExecuting$ and executeError$ just
\* before and after the step that settled it.
IdleExec ==
  [pc |-> "idle", canExecuteNow |-> FALSE, invoked |-> FALSE, fnError |-> NoError,
   outcome |-> "pending", retVal |-> Absent, thrown |-> NoError,
   errBeforeInvoke |-> NoError, errAtInvoke |-> NoError,
   isExecBefore |-> FALSE, isExecAfter |-> FALSE,
   errBefore |-> NoError, errAfter |-> NoError]

\* a Command over a can-execute subject holding cond: _canExecute$, _isExecuting$,
\* _executeError$, the calls of execute, and the continuations ready to run
NewCommand(cond) ==
  [canExecute |-> cond, isExecuting |-> FALSE, executeError |-> NoError,
   execs |-> [e \in Execs |-> IdleExec], started |-> 0, microtasks |-> <<>>]

\* a RestfulApiViewModel over a model holding d, with one subscriber of
\* selectedItem$: the model's data, _selectedItemId$, the value the subscriber
\* received last and whether the stream ended with an error
NewViewModel(d) ==
  [data |-> d, selectedItemId |-> Absent, emitted |-> Null, errored |-> FALSE]

(* ---------------------------- Init ------------------------------------- *)

Alice == Obj(S("1"), S("Alice"), Absent, Absent)
Bob == Obj(S("2"), S("Bob"), Absent, Absent)

InitialData == {Null, Item(Alice), Coll(<<>>), Coll(<<Item(Alice)>>), Coll(<<Item(Alice), Item(Bob)>>)}

Init ==
  /\ data \in InitialData
  /\ loading = FALSE
  /\ error = NoError
  /\ calls = [c \in Calls |-> IdleCall]
  /\ started = 0
  /\ shouldValidateSchema \in BOOLEAN
  /\ schemaIsArray \in BOOLEAN
  /\ ctor = NoConstruction
  /\ command = NewCommand(TRUE)
  /\ viewModel = NewViewModel(Null)

(* ---------------------------- constructor ------------------------------ *)

ctorBaseUrl == <<"https://api.test.com", "/">>
ctorEndpoint == <<"/", "users">>

\* b.endsWith('/') ? b.slice(0, -1) : b
TrimTrailingSlash(b) ==
  IF Len(b) > 0 /\ b[Len(b)] = "/" THEN SubSeq(b, 1, Len(b) - 1) ELSE b

\* e.startsWith('/') ? e.slice(1) : e
TrimLeadingSlash(e) ==
  IF Len(e) > 0 /\ e[1] = "/" THEN SubSeq(e, 2, Len(e)) ELSE e

baseUrl == TrimTrailingSlash(ctorBaseUrl)

endpoint == TrimLeadingSlash(ctorEndpoint)

getUrl(id) ==
  IF Truthy(id) THEN baseUrl \o <<"/">> \o endpoint \o <<"/">> \o id
  ELSE baseUrl \o <<"/">> \o endpoint

(* ---------------------------- schema ----------------------------------- *)

\* z.object({...}).parse(v): v is an object carrying the required keys
ItemConforms(v) == v.kind = "item" /\ \A f \in RequiredFields : v.item[f] # Absent
ParseItem(v) == Item([f \in Fields |-> IF f \in SchemaFields THEN v.item[f] ELSE Absent])

\* z.array(z.object({...})).parse(v)
ArrayConforms(v) == v.kind = "array" /\ \A i \in 1..Len(v.items) : ItemConforms(v.items[i])
ParseArray(v) == Coll([i \in 1..Len(v.items) |-> ParseItem(v.items[i])])

\* the parse that executeApiRequest applies for an expected type
UsesArraySchema(expectedType) == expectedType = "collection" \/ schemaIsArray
ParseOk(expectedType, v) ==
  IF UsesArraySchema(expectedType) THEN ArrayConforms(v) ELSE ItemConforms(v)
Parse(expectedType, v) ==
  IF UsesArraySchema(expectedType) THEN ParseArray(v) ELSE ParseItem(v)

(* ---------------------------- executeApiRequest ------------------------ *)

\* a call started while another is in flight overlaps it (and the other one it)
MarkOverlap(cs, c) ==
  LET busy == \E o \in Calls : o # c /\ cs[o].pc \notin {"idle", "settled"} IN
  [o \in Calls |->
     IF o = c THEN [cs[o] EXCEPT !.overlapped = busy]
     ELSE IF cs[o].pc \notin {"idle", "settled"} THEN [cs[o] EXCEPT !.overlapped = TRUE]
     ELSE cs[o]]

\* ExecStart without setLoading(true)
ExecStartNoLoading(c, rec, url, method, body, expectedType) ==
  /\ loading' = loading
  /\ error' = NoError
  /\ calls' = MarkOverlap(
       [calls EXCEPT ![c] = [rec EXCEPT !.pc = "awaitFetcher", !.url = url,
                                        !.method = method, !.body = body,
                                        !.expectedType = expectedType]], c)

\* setLoading(true); clearError(); this.fetcher(url, options) up to the await
ExecStart(c, rec, url, method, body, expectedType) ==
  /\ loading' = TRUE
  /\ error' = NoError
  /\ calls' = MarkOverlap(
       [calls EXCEPT ![c] = [rec EXCEPT !.pc = "awaitFetcher", !.url = url,
                                        !.method = method, !.body = body,
                                        !.expectedType = expectedType,
                                        !.loads = Append(@, TRUE)]], c)

\* how many calls have settled
SettledCount(cs) == Cardinality({o \in Calls : cs[o].pc = "settled"})

\* the promise of the call settles; d is the data cell after the settling step
Settled(rec, outcome, retVal, thrown, d) ==
  [rec EXCEPT !.pc = "settled", !.outcome = outcome, !.retVal = retVal, !.thrown = thrown,
              !.before = data, !.after = d, !.errAfter = error, !.loadAfter = loading,
              !.rank = SettledCount(calls) + 1]

\* the call settles without reaching executeApiRequest (a throw or a return before it)
SettleEarly(c, rec, outcome, thrown) ==
  /\ calls' = MarkOverlap([calls EXCEPT ![c] = Settled(rec, outcome, Null, thrown, data)], c)
  /\ UNCHANGED <<data, loading, error>>

\* ExecFail without setError(err)
ExecFailNoSetError(c, e) ==
  /\ error' = error
  /\ loading' = FALSE
  /\ calls' = [calls EXCEPT ![c].pc = "execDone", ![c].execOk = FALSE, ![c].execErr = e,
                            ![c].respKind = "", ![c].loads = Append(@, FALSE)]

\* ExecFail without the finally block
ExecFailKeepsLoading(c, e) ==
  /\ error' = e
  /\ loading' = loading
  /\ calls' = [calls EXCEPT ![c].pc = "execDone", ![c].execOk = FALSE, ![c].execErr = e,
                            ![c].respKind = ""]

\* catch (err) { setError(err); throw err } finally { setLoading(false) }
ExecFail(c, e) ==
  /\ error' = e
  /\ loading' = FALSE
  /\ calls' = [calls EXCEPT ![c].pc = "execDone", ![c].execOk = FALSE, ![c].execErr = e,
                            ![c].respKind = "", ![c].loads = Append(@, FALSE)]

\* ExecReturn that never validates
ExecReturnUnvalidated(c, d) ==
  /\ loading' = FALSE
  /\ error' = error
  /\ calls' = [calls EXCEPT ![c].pc = "execDone", ![c].execOk = TRUE, ![c].execData = d,
                            ![c].respKind = "", ![c].loads = Append(@, FALSE)]

\* lines 108-146: validate the decoded data, return it, finally setLoading(false)
ExecReturn(c, d) ==
  LET exp == calls[c].expectedType
      validate == shouldValidateSchema /\ exp # "none"
  IN IF validate /\ ~ParseOk(exp, d)
     THEN ExecFail(c, Err("validation", c))
     ELSE /\ loading' = FALSE
          /\ error' = error
          /\ calls' = [calls EXCEPT ![c].pc = "execDone", ![c].execOk = TRUE,
                                    ![c].execData = IF validate THEN Parse(exp, d) ELSE d,
                                    ![c].respKind = "", ![c].loads = Append(@, FALSE)]

(* what the remote side can answer to a call *)
ServerId(c) == <<"srv", ToString(c)>>

Answered(c) ==
  LET r == calls[c]
      nm == IF Truthy(r.payload["name"]) THEN r.payload["name"] ELSE S("Alice")
  IN CASE r.op = "create" -> Item(Obj(ServerId(c), nm, S("t"), S("x")))
       [] r.op = "update" -> Item(Obj(r.id, nm, S("t"), S("x")))
       [] r.op = "fetch" /\ r.expectedType = "single" -> Item(Obj(r.id, S("Al"), S("t"), S("x")))
       [] r.op = "fetch" /\ r.expectedType = "collection" ->
            Coll(<<Item(Obj(S("1"), S("Al"), S("t"), S("x"))), Item(Obj(S("4"), S("Dan"), Absent, Absent))>>)
       [] OTHER -> Item(Obj(Absent, Absent, Absent, S("deleted")))

\* a body that does not satisfy the schema (name is missing)
Malformed(c) ==
  IF calls[c].expectedType = "collection"
  THEN Coll(<<Item(Obj(S("1"), Absent, Absent, Absent))>>)
  ELSE Item(Obj(ServerId(c), Absent, Absent, Absent))

JsonBodies(c) == {Answered(c), Malformed(c), Null}
DirectValues(c) == {Answered(c), Malformed(c)}
TextBodies == {Text(S("OK"))}

FetcherResults == {"reject", "falsy", "json", "noContent", "text", "direct"}

\* the continuation of `await this.fetcher(url, options)`, lines 86-106
ExecAfterFetcher(c) ==
  /\ calls[c].pc = "awaitFetcher"
  /\ UNCHANGED <<data, started, shouldValidateSchema, schemaIsArray, ctor, command, viewModel>>
  /\ \E r \in FetcherResults :
       CASE r = "reject" -> ExecFail(c, Err("transport", c))
         [] r = "falsy" -> ExecFail(c, Err("empty", c))
         [] r \in {"json", "text"} ->
              /\ calls' = [calls EXCEPT ![c].pc = "awaitBody", ![c].respKind = r]
              /\ UNCHANGED <<loading, error>>
         [] r = "noContent" -> ExecReturn(c, Null)
         [] OTHER -> \E v \in DirectValues(c) : ExecReturn(c, v)

\* the continuation of `await response.json()` / `await response.text()`
ExecAfterBody(c) ==
  /\ calls[c].pc = "awaitBody"
  /\ UNCHANGED <<data, started, shouldValidateSchema, schemaIsArray, ctor, command, viewModel>>
  /\ \/ ExecFail(c, Err("decode", c))
     \/ \E v \in (IF calls[c].respKind = "json" THEN JsonBodies(c) ELSE TextBodies) :
          ExecReturn(c, v)

(* ---------------------------- inputs ----------------------------------- *)

CreatePayloads ==
  {Obj(Absent, S("X"), Absent, Absent), Obj(S("3"), S("X"), Absent, Absent),
   Obj(S("1"), S("X"), Absent, Absent)}
UpdatePayloads == {Obj(Absent, S("A2"), Absent, Absent), Obj(S("9"), S("A2"), Absent, Absent)}
ArgIds == {S("1"), S("2"), S("3")}
FetchIdLists == {<<S("1"), S("2")>>, <<S("3")>>}

\* Join that yields the first id only
JoinFirstOnly(ids, i) == IF i > Len(ids) THEN <<>> ELSE ids[i]

RECURSIVE Join(_, _)
\* ids.join(',')
Join(ids, i) ==
  IF i > Len(ids) THEN <<>>
  ELSE (IF i > 1 THEN <<",">> ELSE <<>>) \o ids[i] \o Join(ids, i + 1)

NewCall(op, id, payload) ==
  [IdleCall EXCEPT !.op = op, !.id = id, !.payload = payload,
                   !.originalData = data, !.preData = data]

\* this.setData(d) made by the call
Publish(rec, d) == [rec EXCEPT !.pubs = Append(@, d), !.pubAt = Append(@, Len(rec.loads))]

(* ---------------------------- fetch ------------------------------------ *)

\* fetch(), fetch(id), fetch([ids]) up to the await of executeApiRequest
Fetch ==
  /\ started < MaxCalls
  /\ started' = started + 1
  /\ UNCHANGED <<data, shouldValidateSchema, schemaIsArray, ctor, command, viewModel>>
  /\ \/ ExecStart(started + 1, NewCall("fetch", Absent, NoItem), getUrl(Absent), "GET",
                  NoItem, "collection")
     \/ \E id \in ArgIds :
          ExecStart(started + 1, NewCall("fetch", id, NoItem), getUrl(id), "GET",
                    NoItem, "single")
     \/ \E ids \in FetchIdLists :
          ExecStart(started + 1, [NewCall("fetch", Absent, NoItem) EXCEPT !.ids = ids],
                    getUrl(Absent) \o <<"?ids=">> \o Join(ids, 1), "GET", NoItem, "collection")

\* FetchContinue that swallows the failure and never settles the promise
FetchContinueSwallowsFailure(c) ==
  /\ calls[c].pc = "execDone" /\ calls[c].op = "fetch"
  /\ UNCHANGED <<loading, error, started, shouldValidateSchema, schemaIsArray, ctor, command, viewModel>>
  /\ IF calls[c].execOk
     THEN /\ data' = calls[c].execData
          /\ calls' = [calls EXCEPT ![c] =
               Settled(Publish(@, calls[c].execData), "resolved", Null, NoError,
                       calls[c].execData)]
     ELSE UNCHANGED <<data, calls>>

\* lines 171-177 after executeApiRequest has settled
FetchContinue(c) ==
  /\ calls[c].pc = "execDone" /\ calls[c].op = "fetch"
  /\ UNCHANGED <<loading, error, started, shouldValidateSchema, schemaIsArray, ctor, command, viewModel>>
  /\ IF calls[c].execOk
     THEN /\ data' = calls[c].execData
          /\ calls' = [calls EXCEPT ![c] =
               Settled(Publish(@, calls[c].execData), "resolved", Null, NoError,
                       calls[c].execData)]
     ELSE /\ data' = data
          /\ calls' = [calls EXCEPT ![c] = Settled(@, "rejected", Null, calls[c].execErr, data)]

(* ---------------------------- create ----------------------------------- *)

\* tempItem: { ...payload, id: tempItemId } when the payload has no id, else the payload
TempItem(payload, tempItemId) ==
  IF Truthy(payload["id"]) THEN Item(payload) ELSE Item([payload EXCEPT !["id"] = tempItemId])

\* optimisticData of create: [...originalData, tempItem] or tempItem
CreateOptimistic(originalData, tempItem) ==
  IF IsArray(originalData) THEN Coll(Append(originalData.items, tempItem)) ELSE tempItem

\* the id by which create's confirming map recognises the provisional entry:
\* (tempItemId && item.id === tempItemId) || item === tempItem ||
\* (payload.id && item.id === payload.id && tempItemId === null).
\* Objects are never mutated, so item === tempItem implies the ids are equal.
ProvisionalId(rec) ==
  IF Truthy(rec.tempItemId) THEN rec.tempItemId ELSE rec.payload["id"]

\* CreateConfirmed computed from the snapshot taken when create started
CreateConfirmedFromSnapshot(rec, currentDataAfterRequest, createdItem) ==
  IF IsArray(rec.originalData)
  THEN Coll(Append(rec.originalData.items, createdItem))
  ELSE createdItem

\* CreateConfirmed that appends the returned item and keeps the provisional entry
CreateConfirmedKeepsProvisional(rec, currentDataAfterRequest, createdItem) ==
  IF IsArray(currentDataAfterRequest)
  THEN Coll(Append(currentDataAfterRequest.items, createdItem))
  ELSE createdItem

\* what create publishes on success, from the data cell as it is then
CreateConfirmed(rec, currentDataAfterRequest, createdItem) ==
  IF IsArray(currentDataAfterRequest)
  THEN Coll(MapSeq(currentDataAfterRequest.items, {ProvisionalId(rec)}, createdItem, 1))
  ELSE createdItem

\* CreateReverted that publishes the data cell as it is (no rollback)
CreateRevertedKeepsCurrent(rec) == data

\* what create publishes on failure: this.setData(originalData)
CreateReverted(rec) == rec.originalData

\* Create that sends the provisional item as the request body
CreateSendsTempItem ==
  /\ started < MaxCalls
  /\ started' = started + 1
  /\ UNCHANGED <<shouldValidateSchema, schemaIsArray, ctor, command, viewModel>>
  /\ \E payload \in CreatePayloads, now \in Clock, rnd \in Random :
       LET tempItemId == IF Truthy(payload["id"]) THEN Absent ELSE generateTempId(now, rnd)
           optimisticData == CreateOptimistic(data, TempItem(payload, tempItemId))
           rec == [NewCall("create", Absent, payload) EXCEPT !.tempItemId = tempItemId]
       IN /\ data' = optimisticData
          /\ ExecStart(started + 1, Publish(rec, optimisticData), getUrl(Absent), "POST",
                       TempItem(payload, tempItemId).item, "single")

\* lines 203-240
Create ==
  /\ started < MaxCalls
  /\ started' = started + 1
  /\ UNCHANGED <<shouldValidateSchema, schemaIsArray, ctor, command, viewModel>>
  /\ \E payload \in CreatePayloads, now \in Clock, rnd \in Random :
       LET tempItemId == IF Truthy(payload["id"]) THEN Absent ELSE generateTempId(now, rnd)
           optimisticData == CreateOptimistic(data, TempItem(payload, tempItemId))
           rec == [NewCall("create", Absent, payload) EXCEPT !.tempItemId = tempItemId]
       IN /\ data' = optimisticData
          /\ ExecStart(started + 1, Publish(rec, optimisticData), getUrl(Absent), "POST",
                       payload, "single")

\* lines 242-269 after executeApiRequest has settled
CreateContinue(c) ==
  LET rec == calls[c]
      createdItem == rec.execData
      \* the map callback reads item.id of every entry
      mapThrows == rec.execOk /\ IsArray(data) /\ AnyNull(data.items)
      confirmed == CreateConfirmed(rec, data, createdItem)
  IN /\ rec.pc = "execDone" /\ rec.op = "create"
     /\ UNCHANGED <<loading, error, started, shouldValidateSchema, schemaIsArray, ctor, command, viewModel>>
     /\ IF rec.execOk /\ ~mapThrows
        THEN /\ data' = confirmed
             /\ calls' = [calls EXCEPT ![c] =
                  Settled(Publish(@, confirmed), "resolved", createdItem, NoError, confirmed)]
        ELSE /\ data' = CreateReverted(rec)
             /\ calls' = [calls EXCEPT ![c] =
                  Settled(Publish(@, CreateReverted(rec)), "rejected", Null,
                          IF mapThrows THEN Err("type", c) ELSE rec.execErr,
                          CreateReverted(rec))]

(* ---------------------------- update ----------------------------------- *)

\* optimisticData of update: the entry (or the single item) merged with the payload
UpdateOptimistic(originalData, id, payload) ==
  IF IsArray(originalData)
  THEN Coll(MapById(originalData.items, id,
         Item(Spread(originalData.items[FindIdx(originalData.items, id)].item, payload))))
  ELSE Item(Spread(originalData.item, payload))

\* UpdateConfirmed that merges the returned item into the entry
UpdateConfirmedMerges(currentDataAfterRequest, id, updatedItemFromServer) ==
  IF IsArray(currentDataAfterRequest)
  THEN Coll([i \in 1..Len(currentDataAfterRequest.items) |->
              LET e == currentDataAfterRequest.items[i] IN
              IF IdOf(e) = id /\ updatedItemFromServer.kind = "item"
              THEN Item(Spread(e.item, updatedItemFromServer.item))
              ELSE IF IdOf(e) = id THEN updatedItemFromServer ELSE e])
  ELSE updatedItemFromServer

\* UpdateConfirmed that publishes the returned item in place of the whole state
UpdateConfirmedAsSingle(currentDataAfterRequest, id, updatedItemFromServer) ==
  updatedItemFromServer

\* what update publishes on success, from the data cell as it is then
UpdateConfirmed(currentDataAfterRequest, id, updatedItemFromServer) ==
  IF IsArray(currentDataAfterRequest)
  THEN Coll(MapById(currentDataAfterRequest.items, id, updatedItemFromServer))
  ELSE updatedItemFromServer

\* UpdateReverted that publishes the data cell as it is (no rollback)
UpdateRevertedKeepsCurrent(rec) == data

\* UpdateReverted that restores the entry inside the data cell as it is
UpdateRevertedIntoCurrent(rec) ==
  IF IsArray(data)
  THEN Coll(MapById(data.items, rec.id, rec.itemToUpdateOriginal))
  ELSE IF HasId(data, rec.id) THEN rec.itemToUpdateOriginal
  ELSE data

\* what update publishes on failure, lines 348-355
UpdateReverted(rec) ==
  IF IsArray(rec.originalData)
  THEN Coll(MapById(rec.originalData.items, rec.id, rec.itemToUpdateOriginal))
  ELSE IF HasId(rec.originalData, rec.id) THEN rec.itemToUpdateOriginal
  ELSE rec.originalData

\* update throws before it publishes: "notfound", "type" (reading .id of null), or "" 
UpdateThrows(originalData, id) ==
  IF IsArray(originalData)
  THEN IF FindThrows(originalData.items, id) THEN "type"
       ELSE IF FindIdx(originalData.items, id) = 0 THEN "notfound"
       ELSE IF AnyNull(originalData.items) THEN "type"
       ELSE ""
  ELSE IF HasId(originalData, id) THEN "" ELSE "notfound"

\* lines 295-333
Update ==
  /\ started < MaxCalls
  /\ started' = started + 1
  /\ UNCHANGED <<shouldValidateSchema, schemaIsArray, ctor, command, viewModel>>
  /\ \E id \in ArgIds, payload \in UpdatePayloads :
       LET c == started + 1
           rec == NewCall("update", id, payload)
       IN IF UpdateThrows(data, id) # ""
          THEN SettleEarly(c, rec, "rejected", Err(UpdateThrows(data, id), c))
          ELSE LET itemToUpdateOriginal ==
                     IF IsArray(data) THEN data.items[FindIdx(data.items, id)] ELSE data
                   optimisticData == UpdateOptimistic(data, id, payload)
               IN /\ data' = optimisticData
                  /\ ExecStart(c, Publish([rec EXCEPT !.itemToUpdateOriginal =
                                                         itemToUpdateOriginal],
                                          optimisticData),
                               getUrl(id), "PUT", payload, "single")

\* lines 335-357 after executeApiRequest has settled
UpdateContinue(c) ==
  LET rec == calls[c]
      updatedItemFromServer == rec.execData
      mapThrows == rec.execOk /\ IsArray(data) /\ AnyNull(data.items)
      confirmed == UpdateConfirmed(data, rec.id, updatedItemFromServer)
  IN /\ rec.pc = "execDone" /\ rec.op = "update"
     /\ UNCHANGED <<loading, error, started, shouldValidateSchema, schemaIsArray, ctor, command, viewModel>>
     /\ IF rec.execOk /\ ~mapThrows
        THEN IF IsArray(data) \/ HasId(data, rec.id)
             THEN /\ data' = confirmed
                  /\ calls' = [calls EXCEPT ![c] =
                       Settled(Publish(@, confirmed), "resolved", updatedItemFromServer,
                               NoError, confirmed)]
             ELSE /\ data' = data
                  /\ calls' = [calls EXCEPT ![c] =
                       Settled(@, "resolved", updatedItemFromServer, NoError, data)]
        ELSE /\ data' = UpdateReverted(rec)
             /\ calls' = [calls EXCEPT ![c] =
                  Settled(Publish(@, UpdateReverted(rec)), "rejected", Null,
                          IF mapThrows THEN Err("type", c) ELSE rec.execErr,
                          UpdateReverted(rec))]

(* ---------------------------- delete ----------------------------------- *)

\* DeleteOptimistic that removes nothing
DeleteOptimisticKeepsEntry(originalData, id) == originalData

\* the state without the entry: filter by id, or null for a single item with that id
DeleteOptimistic(originalData, id) ==
  IF IsArray(originalData) THEN Coll(FilterSeq(originalData.items, id, 1)) ELSE Null

\* itemWasDeleted
ItemWasDeleted(originalData, id) ==
  IF IsArray(originalData)
  THEN Len(FilterSeq(originalData.items, id, 1)) < Len(originalData.items)
  ELSE HasId(originalData, id)

\* DeleteReverted that puts the entry back into the data cell as it is
DeleteRevertedIntoCurrent(rec) ==
  IF IsArray(data) /\ IsArray(rec.originalData)
  THEN Coll(SelectSeq(rec.originalData.items,
                      LAMBDA e : IdOf(e) = rec.id \/ \E i \in 1..Len(data.items) : data.items[i] = e)
            \o SelectSeq(data.items,
                         LAMBDA e : \A i \in 1..Len(rec.originalData.items) :
                                      rec.originalData.items[i] # e))
  ELSE rec.originalData

\* what delete publishes on failure: this.setData(originalData)
DeleteReverted(rec) == rec.originalData

\* Delete that publishes nothing until the request has been answered
DeleteWithoutOptimisticPublish ==
  /\ started < MaxCalls
  /\ started' = started + 1
  /\ UNCHANGED <<shouldValidateSchema, schemaIsArray, ctor, command, viewModel>>
  /\ \E id \in ArgIds :
       LET c == started + 1
           rec == NewCall("delete", id, NoItem)
       IN IF IsArray(data) /\ AnyNull(data.items)
          THEN SettleEarly(c, rec, "rejected", Err("type", c))
          ELSE IF ItemWasDeleted(data, id)
          THEN /\ data' = data
               /\ ExecStart(c, rec, getUrl(id), "DELETE", NoItem, "none")
          ELSE SettleEarly(c, rec, "resolved", NoError)

\* lines 379-401
Delete ==
  /\ started < MaxCalls
  /\ started' = started + 1
  /\ UNCHANGED <<shouldValidateSchema, schemaIsArray, ctor, command, viewModel>>
  /\ \E id \in ArgIds :
       LET c == started + 1
           rec == NewCall("delete", id, NoItem)
       IN IF IsArray(data) /\ AnyNull(data.items)
          THEN \* the filter callback reads item.id of every entry
               SettleEarly(c, rec, "rejected", Err("type", c))
          ELSE IF ItemWasDeleted(data, id)
          THEN /\ data' = DeleteOptimistic(data, id)
               /\ ExecStart(c, Publish(rec, DeleteOptimistic(data, id)), getUrl(id),
                            "DELETE", NoItem, "none")
          ELSE SettleEarly(c, rec, "resolved", NoError)

\* lines 402-407 after executeApiRequest has settled
DeleteContinue(c) ==
  /\ calls[c].pc = "execDone" /\ calls[c].op = "delete"
  /\ UNCHANGED <<loading, error, started, shouldValidateSchema, schemaIsArray, ctor, command, viewModel>>
  /\ IF calls[c].execOk
     THEN /\ data' = data
          /\ calls' = [calls EXCEPT ![c] = Settled(@, "resolved", Null, NoError, data)]
     ELSE /\ data' = DeleteReverted(calls[c])
          /\ calls' = [calls EXCEPT ![c] =
               Settled(Publish(@, DeleteReverted(calls[c])), "rejected", Null,
                       calls[c].execErr, DeleteReverted(calls[c]))]

(* ---------------------------- specification ---------------------------- *)

Next ==
  \/ Fetch
  \/ Create
  \/ Update
  \/ Delete
  \/ \E c \in Calls : ExecAfterFetcher(c)
  \/ \E c \in Calls : ExecAfterBody(c)
  \/ \E c \in Calls : FetchContinue(c)
  \/ \E c \in Calls : CreateContinue(c)
  \/ \E c \in Calls : UpdateContinue(c)
  \/ \E c \in Calls : DeleteContinue(c)

Spec == Init /\ [][Next]_vars

\* the continuation of an await whose promise has settled is always run (the
\* microtask queue is drained); whether the transport ever answers is left open
Continuations(c) ==
  FetchContinue(c) \/ CreateContinue(c) \/ UpdateContinue(c) \/ DeleteContinue(c)

\* the engine constructed with validation on or off over a collection of two
\* entries or over a single item
FairInit ==
  /\ Init
  /\ data \in {Item(Alice), Coll(<<Item(Alice), Item(Bob)>>)}
  /\ ~schemaIsArray

FairSpec == FairInit /\ [][Next]_vars /\ \A c \in Calls : WF_vars(Continuations(c))

(* ---------------------------- the engine at rest ----------------------- *)

engineVars == <<data, loading, error, calls, started, shouldValidateSchema, schemaIsArray>>

\* the engine as the other specifications hold it: constructed over null, no call made
EngineAtRest ==
  /\ data = Null
  /\ loading = FALSE
  /\ error = NoError
  /\ calls = [c \in Calls |-> IdleCall]
  /\ started = 0
  /\ shouldValidateSchema = TRUE
  /\ schemaIsArray = FALSE

(* ---------------------------- new RestfulApiModel(input) --------------- *)

\* the inputs a caller may hand to the constructor; Absent is a missing (null or
\* undefined) baseUrl or endpoint, FALSE a missing fetcher
CtorInputs ==
  [baseUrl : {Absent, <<"https://api.test.com">>, ctorBaseUrl,
              <<"https://api.test.com", "/", "/">>},
   endpoint : {Absent, <<"users">>, ctorEndpoint, <<"/", "/", "users">>},
   fetcher : BOOLEAN,
   validateSchema : {"undefined", "true", "false"},
   initialData : InitialData]

\* super({ initialData, schema }): the three cells of BaseModel
SuperConstructed(input) == [NoFields EXCEPT !.data = input.initialData]

\* MissingConfig that does not look at the fetcher
MissingConfigIgnoresFetcher(input) ==
  ~Truthy(input.baseUrl) \/ ~Truthy(input.endpoint)

\* !baseUrl || !endpoint || !fetcher
MissingConfig(input) ==
  ~Truthy(input.baseUrl) \/ ~Truthy(input.endpoint) \/ ~input.fetcher

\* the constructor run on the input: the `new` expression either throws, and
\* yields no object, or yields the initialised object
RunConstructor(input) ==
  LET this == SuperConstructed(input) IN
  IF MissingConfig(input)
  THEN [pc |-> "thrown", input |-> input, this |-> this,
        thrown |-> Err("config", 0), instance |-> FALSE]
  ELSE [pc |-> "constructed", input |-> input,
        this |-> [this EXCEPT !.baseUrl = TrimTrailingSlash(input.baseUrl),
                              !.endpoint = TrimLeadingSlash(input.endpoint),
                              !.fetcher = input.fetcher,
                              !.shouldValidateSchema =
                                 IF input.validateSchema = "undefined" THEN TRUE
                                 ELSE input.validateSchema = "true"],
        thrown |-> NoError, instance |-> TRUE]

\* getUrl(id) of the constructed object
LocationOf(this, id) ==
  IF Truthy(id) THEN this.baseUrl \o <<"/">> \o this.endpoint \o <<"/">> \o id
  ELSE this.baseUrl \o <<"/">> \o this.endpoint

CtorInit ==
  /\ EngineAtRest
  /\ ctor \in {[NoConstruction EXCEPT !.pc = "args", !.input = i] : i \in CtorInputs}
  /\ command = NewCommand(TRUE)
  /\ viewModel = NewViewModel(Null)

\* new RestfulApiModel(input)
Construct ==
  /\ ctor.pc = "args"
  /\ ctor' = RunConstructor(ctor.input)
  /\ UNCHANGED <<engineVars, command, viewModel>>

SpecCtor == CtorInit /\ [][Construct]_vars

(* ---------------------------- Command ---------------------------------- *)

\* the value canExecute$ emits to a new subscriber: canExec && !isExec
CanExecuteNow(cmd) == cmd.canExecute /\ ~cmd.isExecuting

\* what the wrapped function resolves with in call e
Result(e) == <<"Executed: ", ToString(e)>>

\* the promise of call e settles in the step that takes the command from before to cmd
SettledExec(before, cmd, e, outcome, retVal, thrown) ==
  [cmd EXCEPT !.execs[e] =
     [@ EXCEPT !.pc = "settled", !.outcome = outcome, !.retVal = retVal, !.thrown = thrown,
               !.isExecBefore = before.isExecuting, !.isExecAfter = cmd.isExecuting,
               !.errBefore = before.executeError, !.errAfter = cmd.executeError]]

\* Refuse that resets isExecuting$ on its way out
RefuseResetsExecuting(cmd, e) ==
  SettledExec(cmd, [cmd EXCEPT !.isExecuting = FALSE], e, "resolved", Absent, NoError)

\* lines 106-109: `return;` when canExecuteNow is false
Refuse(cmd, e) == SettledExec(cmd, cmd, e, "resolved", Absent, NoError)

\* Begin without the reset of executeError$
BeginKeepsError(cmd, e) ==
  LET c1 == [cmd EXCEPT !.isExecuting = TRUE] IN
  [c1 EXCEPT !.execs[e].pc = "running", !.execs[e].invoked = TRUE,
             !.execs[e].errBeforeInvoke = cmd.executeError,
             !.execs[e].errAtInvoke = c1.executeError]

\* lines 111-115: isExecuting$ true, executeError$ null, the wrapped function invoked
Begin(cmd, e) ==
  LET c1 == [cmd EXCEPT !.isExecuting = TRUE, !.executeError = NoError] IN
  [c1 EXCEPT !.execs[e].pc = "running", !.execs[e].invoked = TRUE,
             !.execs[e].errBeforeInvoke = cmd.executeError,
             !.execs[e].errAtInvoke = c1.executeError]

\* lines 117-122: catch records the error and rethrows it, finally resets isExecuting$
Fail(before, cmd, e, err) ==
  SettledExec(before,
              [cmd EXCEPT !.executeError = err, !.isExecuting = FALSE,
                          !.execs[e].fnError = err],
              e, "rejected", Absent, err)

\* lines 115-116 and 120-122: the result is returned, finally resets isExecuting$
Succeed(before, cmd, e, result) ==
  SettledExec(before, [cmd EXCEPT !.isExecuting = FALSE], e, "resolved", result, NoError)

CommandInit ==
  /\ EngineAtRest
  /\ ctor = NoConstruction
  /\ command \in {NewCommand(cond) : cond \in BOOLEAN}
  /\ viewModel = NewViewModel(Null)

\* execute(param) up to its first await: canExecute$.pipe(first()) emits as soon as
\* it is subscribed, so the value is read now and the continuation is queued
Execute ==
  /\ command.started < MaxExecs
  /\ LET e == command.started + 1 IN
     command' = [command EXCEPT !.started = e,
                                !.execs[e].pc = "awaitCan",
                                !.execs[e].canExecuteNow = CanExecuteNow(command),
                                !.microtasks = Append(@, e)]
  /\ UNCHANGED <<engineVars, ctor, viewModel>>

\* the owner of the can-execute subject publishes a new value
SetCanExecute(b) ==
  /\ command.canExecute # b
  /\ command' = [command EXCEPT !.canExecute = b]
  /\ UNCHANGED <<engineVars, ctor, viewModel>>

\* the promise the wrapped function returned settles; the continuation of
\* `await this._executeFn(param)` is queued
FnSettles(e) ==
  /\ command.execs[e].pc = "running"
  /\ \E ok \in BOOLEAN :
       command' = [command EXCEPT !.execs[e].pc = "fnSettled",
                                  !.execs[e].fnError = IF ok THEN NoError ELSE Err("fn", e),
                                  !.microtasks = Append(@, e)]
  /\ UNCHANGED <<engineVars, ctor, viewModel>>

\* the continuation of line 104 runs: lines 106-115; the wrapped function either
\* returns a promise or throws before returning one
ExecuteAfterCan ==
  /\ command.microtasks # <<>>
  /\ LET e == Head(command.microtasks)
         cmd == [command EXCEPT !.microtasks = Tail(@)]
     IN /\ command.execs[e].pc = "awaitCan"
        /\ IF ~command.execs[e].canExecuteNow
           THEN command' = Refuse(cmd, e)
           ELSE \/ command' = Begin(cmd, e)
                \/ command' = Fail(cmd, Begin(cmd, e), e, Err("fn", e))
  /\ UNCHANGED <<engineVars, ctor, viewModel>>

\* the continuation of line 115 runs: lines 116-122
ExecuteAfterFn ==
  /\ command.microtasks # <<>>
  /\ LET e == Head(command.microtasks)
         cmd == [command EXCEPT !.microtasks = Tail(@)]
     IN /\ command.execs[e].pc = "fnSettled"
        /\ IF command.execs[e].fnError = NoError
           THEN command' = Succeed(cmd, cmd, e, Result(e))
           ELSE command' = Fail(cmd, cmd, e, command.execs[e].fnError)
  /\ UNCHANGED <<engineVars, ctor, viewModel>>

CommandNext ==
  \/ Execute
  \/ \E b \in BOOLEAN : SetCanExecute(b)
  \/ \E e \in Execs : FnSettles(e)
  \/ ExecuteAfterCan
  \/ ExecuteAfterFn

SpecCommand == CommandInit /\ [][CommandNext]_vars

(* ---------------------------- RestfulApiViewModel.selectedItem$ -------- *)

\* the values the model's data$ can hold: the initial ones, and the collections
\* with a null entry that a create answered with an empty body leaves behind when
\* validation is off
ViewData == InitialData \cup {Coll(<<Null>>), Coll(<<Item(Alice), Null>>)}

\* the ids selectItem is called with; Absent is null
SelectableIds == {Absent} \cup ArgIds

\* the map callback throws: find reads item.id of a null entry
SelectedItemThrows(d, selectedId) ==
  IsArray(d) /\ Truthy(selectedId) /\ FindThrows(d.items, selectedId)

\* Array.isArray(data) && selectedId ? data.find(item => item.id === selectedId) || null : null
SelectedItem(d, selectedId) ==
  IF IsArray(d) /\ Truthy(selectedId) /\ FindIdx(d.items, selectedId) # 0
  THEN d.items[FindIdx(d.items, selectedId)]
  ELSE Null

\* combineLatest emits the pair and map runs on it, unless the stream has ended; an
\* exception in the callback ends the stream with an error
Recompute(vm) ==
  IF vm.errored THEN vm
  ELSE IF SelectedItemThrows(vm.data, vm.selectedItemId) THEN [vm EXCEPT !.errored = TRUE]
  ELSE [vm EXCEPT !.emitted = SelectedItem(vm.data, vm.selectedItemId)]

\* the view model constructed over a model and selectedItem$ subscribed: startWith
\* emits null, then the pair (data, null) maps to null
ViewInit ==
  /\ EngineAtRest
  /\ ctor = NoConstruction
  /\ command = NewCommand(TRUE)
  /\ viewModel \in {NewViewModel(d) : d \in ViewData}

\* the model publishes d on data$
ViewSetData(d) ==
  /\ viewModel' = Recompute([viewModel EXCEPT !.data = d])
  /\ UNCHANGED <<engineVars, ctor, command>>

\* selectItem(id)
SelectItem(id) ==
  /\ viewModel' = Recompute([viewModel EXCEPT !.selectedItemId = id])
  /\ UNCHANGED <<engineVars, ctor, command>>

ViewNext ==
  \/ \E d \in ViewData : ViewSetData(d)
  \/ \E id \in SelectableIds : SelectItem(id)

SpecViewModel == ViewInit /\ [][ViewNext]_vars

(* ---------------------------- vocabulary of the claims ----------------- *)

IsSettled(c) == calls[c].pc = "settled"
Rejected(c) == IsSettled(c) /\ calls[c].outcome = "rejected"
Resolved(c) == IsSettled(c) /\ calls[c].outcome = "resolved"
\* the call issued a request to the fetcher
ReachedTransport(c) == calls[c].method # ""
\* no entry of d has the id (collection without it, single item with another id, null)
TargetAbsent(d, id) ==
  IF IsArray(d) THEN \A i \in 1..Len(d.items) : IdOf(d.items[i]) # id ELSE ~HasId(d, id)

\* the wrapped function of call e of execute has been started and has not settled
FnRunning(e) == command.execs[e].pc = "running"
\* call e of execute has started the wrapped function and has not returned
Executing(e) == command.execs[e].pc \in {"running", "fnSettled"}
\* call e of execute found canExecute$ false and has returned
Refused(e) == command.execs[e].pc = "settled" /\ ~command.execs[e].canExecuteNow

\* the entries of the collection d that have an id have pairwise distinct ids
DistinctIds(d) ==
  \A i, j \in 1..Len(d.items) :
    (i # j /\ Truthy(IdOf(d.items[i]))) => IdOf(d.items[i]) # IdOf(d.items[j])

\* every call made so far has settled
Quiescent == \A c \in Calls : calls[c].pc \in {"idle", "settled"}

\* the value is the state d or one of the entries of the collection d
Holds(d, v) == d = v \/ (IsArray(d) /\ \E i \in 1..Len(d.items) : d.items[i] = v)

(* C1: a create, update or delete that fails with no other call overlapping it
   leaves the data cell, once its promise has rejected, equal to the state it was
   called on. *)
C1_RollbackIsIdentity ==
  \A c \in Calls :
    (Rejected(c) /\ calls[c].op \in {"create", "update", "delete"} /\ ~calls[c].overlapped)
      => calls[c].after = calls[c].preData

\* a create on a collection whose response failed the schema: the provisional
\* entry was published and the rollback restored the collection
C1_Witness ==
  \E c \in Calls :
    /\ Rejected(c) /\ calls[c].op = "create" /\ ~calls[c].overlapped
    /\ calls[c].thrown.kind = "validation"
    /\ IsArray(calls[c].preData) /\ Len(calls[c].preData.items) = 2
    /\ Len(calls[c].pubs) = 2 /\ calls[c].pubs[1] # calls[c].preData
    /\ calls[c].after = calls[c].preData

(* C2: when update(id) fails on a collection, every entry with another id that
   other calls changed while the update was in flight keeps, after the rollback,
   the value it had just before it. *)
C2_RollbackKeepsOtherEntries ==
  \A c \in Calls :
    (Rejected(c) /\ calls[c].op = "update" /\ ReachedTransport(c)
       /\ IsArray(calls[c].preData) /\ IsArray(calls[c].before))
      => \A i \in 1..Len(calls[c].before.items) :
           LET e == calls[c].before.items[i] IN
           (/\ IdOf(e) # calls[c].id
            /\ \E k \in 1..Len(calls[c].preData.items) :
                 IdOf(calls[c].preData.items[k]) = IdOf(e) /\ calls[c].preData.items[k] # e)
             => \E j \in 1..Len(calls[c].after.items) : calls[c].after.items[j] = e

(* C3: a create whose payload has no id, called on a collection with no call
   overlapping it and answered successfully, publishes data exactly twice: the
   collection with one item appended whose id begins with temp_, then the same
   collection with the returned item in that position, the other entries
   unchanged, and no entry carrying the temporary id. *)
C3_CreatePublishesTempThenServer ==
  \A c \in Calls :
    (IsSettled(c) /\ calls[c].op = "create" /\ ~Truthy(calls[c].payload["id"])
       /\ IsArray(calls[c].preData) /\ ~calls[c].overlapped /\ calls[c].execOk)
      => LET n == Len(calls[c].preData.items)
             p == calls[c].pubs
         IN /\ Len(p) = 2
            /\ IsArray(p[1]) /\ Len(p[1].items) = n + 1
            /\ SubSeq(p[1].items, 1, n) = calls[c].preData.items
            /\ StartsWithTempPrefix(IdOf(p[1].items[n + 1]))
            /\ IsArray(p[2]) /\ Len(p[2].items) = n + 1
            /\ SubSeq(p[2].items, 1, n) = calls[c].preData.items
            /\ p[2].items[n + 1] = calls[c].execData
            /\ \A i \in 1..(n + 1) : IdOf(p[2].items[i]) # calls[c].tempItemId

(* C4: an update(id, payload) that reaches the transport, on a collection and
   with no call overlapping it, publishes data exactly twice: first the
   collection with the target entry replaced by the original item merged with
   the payload, then, on success, the collection with the target entry replaced
   by the returned item, and on failure the collection it was called on. *)
C4_UpdatePublishesOptimisticThenFinal ==
  \A c \in Calls :
    (IsSettled(c) /\ calls[c].op = "update" /\ ReachedTransport(c)
       /\ IsArray(calls[c].preData) /\ ~calls[c].overlapped)
      => LET pre == calls[c].preData.items
             k == FindIdx(pre, calls[c].id)
             p == calls[c].pubs
         IN /\ Len(p) = 2
            /\ p[1] = Coll([pre EXCEPT ![k] = Item(Spread(pre[k].item, calls[c].payload))])
            /\ Resolved(c) => p[2] = Coll([pre EXCEPT ![k] = calls[c].retVal])
            /\ Rejected(c) => p[2] = calls[c].preData

(* C5: whenever fetch, create, update or delete rejects, the error slot holds
   the error the promise rejected with. *)
C5_ErrorSlotHoldsRejection ==
  \A c \in Calls : Rejected(c) => calls[c].errAfter = calls[c].thrown

(* C6: loading is true whenever the transport call of some call is in flight. *)
C6_LoadingWhileAnyInFlight ==
  \A c \in Calls : AwaitingTransport(c) => loading

(* C6 as amended: loading is true whenever the transport call of a call that no
   other call overlaps is in flight. *)
C6_LoadingWhileInFlightAlone ==
  \A c \in Calls : (AwaitingTransport(c) /\ ~calls[c].overlapped) => loading

C6_Witness ==
  \E c \in Calls :
    /\ calls[c].pc = "awaitBody" /\ ~calls[c].overlapped /\ loading
    /\ \E o \in Calls : Resolved(o) /\ ReachedTransport(o) /\ ~calls[o].loadAfter

(* C7: update(id, payload) called when no entry of the state has that id rejects
   with a not-found error, issues no request, publishes nothing to the data cell
   and never sets loading. *)
C7_UpdateAbsentFailsFast ==
  \A c \in Calls :
    (calls[c].op = "update" /\ TargetAbsent(calls[c].preData, calls[c].id))
      => /\ Rejected(c) /\ calls[c].thrown.kind = "notfound"
         /\ ~ReachedTransport(c)
         /\ calls[c].pubs = <<>> /\ calls[c].loads = <<>>
         /\ calls[c].after = calls[c].preData

(* C8: delete(id) called when no entry of the state has that id resolves,
   issues no request and publishes nothing to the data cell. *)
C8_DeleteAbsentIsNoOp ==
  \A c \in Calls :
    (calls[c].op = "delete" /\ TargetAbsent(calls[c].preData, calls[c].id))
      => /\ Resolved(c)
         /\ ~ReachedTransport(c)
         /\ calls[c].pubs = <<>>
         /\ calls[c].after = calls[c].preData

(* C9: the rollback of create and of delete publishes the whole snapshot taken
   when the call started, whatever the data cell holds by then. *)
C9_RollbackRestoresWholeSnapshot ==
  \A c \in Calls :
    (Rejected(c) /\ calls[c].op \in {"create", "delete"} /\ ReachedTransport(c))
      => calls[c].after = calls[c].preData

\* the stale rollback: an update of another entry started and resolved while the
\* create (or delete) was in flight, and the rollback put back the old value
C9_Witness ==
  \E c \in Calls, u \in Calls :
    /\ Rejected(c) /\ calls[c].op \in {"create", "delete"} /\ ReachedTransport(c)
    /\ calls[c].thrown.kind = "transport"
    /\ Resolved(u) /\ calls[u].op = "update" /\ u > c /\ calls[u].rank < calls[c].rank
    /\ calls[u].id # calls[c].id
    /\ IsArray(calls[c].before) /\ IsArray(calls[c].after)
    /\ \E i \in 1..Len(calls[c].before.items) : calls[c].before.items[i] = calls[u].retVal
    /\ \A i \in 1..Len(calls[c].after.items) : calls[c].after.items[i] # calls[u].retVal
    /\ \E i \in 1..Len(calls[c].after.items) :
         calls[c].after.items[i] = calls[u].itemToUpdateOriginal

(* C10: when create resolves, what it publishes is the data cell as it was at
   that moment with the provisional entry replaced by the returned item: every
   entry with another id is there unchanged; a state that is not a collection is
   replaced by the returned item. *)
C10_CreateConfirmsOnCurrentState ==
  \A c \in Calls :
    (Resolved(c) /\ calls[c].op = "create")
      => IF IsArray(calls[c].before)
         THEN /\ IsArray(calls[c].after)
              /\ Len(calls[c].after.items) = Len(calls[c].before.items)
              /\ \A i \in 1..Len(calls[c].before.items) :
                   calls[c].after.items[i] =
                     IF IdOf(calls[c].before.items[i]) = ProvisionalId(calls[c])
                     THEN calls[c].retVal ELSE calls[c].before.items[i]
         ELSE calls[c].after = calls[c].retVal

\* an update resolved while the create was in flight; its returned item is in the
\* state the create publishes although the create's snapshot had the old value
C10_Witness ==
  \E c \in Calls, u \in Calls :
    /\ Resolved(c) /\ calls[c].op = "create" /\ IsArray(calls[c].after)
    /\ Resolved(u) /\ calls[u].op = "update" /\ u > c /\ calls[u].rank < calls[c].rank
    /\ \E i \in 1..Len(calls[c].after.items) : calls[c].after.items[i] = calls[u].retVal
    /\ \E i \in 1..Len(calls[c].after.items) : calls[c].after.items[i] = calls[c].retVal
    /\ \A i \in 1..Len(calls[c].preData.items) : calls[c].preData.items[i] # calls[u].retVal

(* C11: once a create that generated a temporary id has settled and every other
   call has settled too, no entry of the state carries that temporary id,
   whatever calls overlapped it. *)
C11_TempIdNeverOutlivesCreate ==
  \A c \in Calls :
    (Quiescent /\ IsSettled(c) /\ calls[c].op = "create" /\ Truthy(calls[c].tempItemId))
      => TargetAbsent(data, calls[c].tempItemId)

(* C11 as amended: once such a create and every other call have settled, an
   entry carries the temporary id only if a call that started while an entry
   with that id was in the state reached the transport and was rejected, not
   before the create settled (its rollback publishes the snapshot holding the
   entry). *)
C11_TempIdGoneUnlessStaleRollback ==
  \A c \in Calls :
    (Quiescent /\ IsSettled(c) /\ calls[c].op = "create" /\ Truthy(calls[c].tempItemId))
      => \/ TargetAbsent(data, calls[c].tempItemId)
         \/ \E o \in Calls :
              /\ Rejected(o) /\ ReachedTransport(o)
              /\ ~TargetAbsent(calls[o].preData, calls[c].tempItemId)
              /\ calls[o].rank >= calls[c].rank

\* a create with a temporary id resolved while a delete that had started during
\* its flight was pending; the delete resolved too and the temporary id is gone
C11_Witness ==
  \E c \in Calls, o \in Calls :
    /\ Quiescent /\ Resolved(c) /\ calls[c].op = "create" /\ Truthy(calls[c].tempItemId)
    /\ calls[c].overlapped /\ o > c /\ calls[o].op = "delete" /\ Resolved(o)
    /\ ReachedTransport(o) /\ ~TargetAbsent(calls[o].preData, calls[c].tempItemId)
    /\ calls[o].rank > calls[c].rank
    /\ IsArray(data) /\ TargetAbsent(data, calls[c].tempItemId)
    /\ \E i \in 1..Len(data.items) : data.items[i] = calls[c].retVal

(* C12: a call that reaches the transport with no other call overlapping it
   sets loading exactly twice, to true and then to false, whatever the
   outcome, and loading is false when its promise settles. *)
C12_LoadingTrueThenFalse ==
  \A c \in Calls :
    (IsSettled(c) /\ ReachedTransport(c) /\ ~calls[c].overlapped)
      => calls[c].loads = <<TRUE, FALSE>> /\ ~calls[c].loadAfter

\* one call rejected on a decode failure and a later one on a validation failure
C12_Witness ==
  \E c \in Calls, o \in Calls :
    /\ Rejected(c) /\ ReachedTransport(c) /\ ~calls[c].overlapped
    /\ calls[c].thrown.kind = "decode" /\ calls[c].loads = <<TRUE, FALSE>>
    /\ Rejected(o) /\ ReachedTransport(o) /\ ~calls[o].overlapped
    /\ calls[o].thrown.kind = "validation" /\ calls[o].loads = <<TRUE, FALSE>>
    /\ ~loading

(* C13: every call of fetch, create, update or delete made while the error slot
   holds an earlier error has set the error slot to null by the time it calls
   the transport or settles. *)
C13_NewCallClearsError ==
  [][\A c \in Calls :
       (calls[c].pc = "idle" /\ calls'[c].pc # "idle" /\ error # NoError)
         => error' = NoError]_vars

(* C14: every fetch whose transport call and validation succeed resolves, has
   replaced the data cell by the validated response whatever it held before,
   and leaves the error slot null. *)
C14_FetchReplacesData ==
  \A c \in Calls :
    (IsSettled(c) /\ calls[c].op = "fetch" /\ calls[c].execOk)
      => /\ Resolved(c)
         /\ calls[c].pubs = <<calls[c].execData>> /\ calls[c].after = calls[c].execData
         /\ shouldValidateSchema => ParseOk(calls[c].expectedType, calls[c].execData)
         /\ calls[c].errAfter = NoError

(* C14 as amended: the same, the error slot being null when no other call
   overlaps the fetch. *)
C14_FetchReplacesDataErrorNullAlone ==
  \A c \in Calls :
    (IsSettled(c) /\ calls[c].op = "fetch" /\ calls[c].execOk)
      => /\ Resolved(c)
         /\ calls[c].pubs = <<calls[c].execData>> /\ calls[c].after = calls[c].execData
         /\ shouldValidateSchema => ParseOk(calls[c].expectedType, calls[c].execData)
         /\ ~calls[c].overlapped => calls[c].errAfter = NoError

\* a validated collection replaced a single item, after an earlier call had
\* left an error in the error slot
C14_Witness ==
  \E c \in Calls, o \in Calls :
    /\ Rejected(o) /\ calls[o].errAfter # NoError /\ calls[o].rank < calls[c].rank
    /\ Resolved(c) /\ calls[c].op = "fetch" /\ ~calls[c].overlapped
    /\ shouldValidateSchema /\ calls[c].expectedType = "collection"
    /\ calls[c].before.kind = "item"
    /\ IsArray(data) /\ Len(data.items) = 2 /\ data = calls[c].execData
    /\ error = NoError

(* C15: a fetch that fails (transport throw, empty response, decode failure or
   validation failure) publishes nothing, so it leaves the data cell as it
   is; when its promise rejects, with that failure, the error slot holds the
   failure and loading is false. *)
C15_FailedFetchPublishesNothing ==
  \A c \in Calls :
    (IsSettled(c) /\ calls[c].op = "fetch" /\ ~calls[c].execOk)
      => /\ Rejected(c) /\ calls[c].thrown = calls[c].execErr
         /\ calls[c].thrown.kind \in {"transport", "empty", "decode", "validation"}
         /\ calls[c].pubs = <<>>
         /\ calls[c].after = calls[c].before
         /\ calls[c].errAfter = calls[c].thrown
         /\ ~calls[c].loadAfter

(* C15 as amended: a failing fetch publishes nothing and rejects with the
   failure; when no other call overlaps it, the data cell is then what it was
   before the call, the error slot holds the failure and loading is false. *)
C15_FailedFetchPublishesNothingAlone ==
  \A c \in Calls :
    (IsSettled(c) /\ calls[c].op = "fetch" /\ ~calls[c].execOk)
      => /\ Rejected(c) /\ calls[c].thrown = calls[c].execErr
         /\ calls[c].thrown.kind \in {"transport", "empty", "decode", "validation"}
         /\ calls[c].pubs = <<>>
         /\ calls[c].after = calls[c].before
         /\ calls[c].loads = <<TRUE, FALSE>>
         /\ ~calls[c].overlapped =>
              /\ calls[c].after = calls[c].preData
              /\ calls[c].errAfter = calls[c].thrown
              /\ ~calls[c].loadAfter

\* a fetch of a collection rejected on a validation failure, the two entries
\* of the state untouched
C15_Witness ==
  \E c \in Calls :
    /\ Rejected(c) /\ calls[c].op = "fetch" /\ ~calls[c].overlapped
    /\ calls[c].thrown.kind = "validation" /\ calls[c].expectedType = "collection"
    /\ IsArray(calls[c].preData) /\ Len(calls[c].preData.items) = 2
    /\ data = calls[c].preData /\ error = calls[c].thrown /\ ~loading
    /\ Quiescent

(* C16: with validation enabled, a create or update whose transport call
   succeeds with a response that fails the schema rejects with the validation
   error; at that moment the error slot holds that error, the data cell is back
   to the state the call started on and loading is false. *)
C16_ValidationFailureRollsBack ==
  \A c \in Calls :
    (IsSettled(c) /\ calls[c].op \in {"create", "update"}
       /\ calls[c].execErr.kind = "validation")
      => /\ shouldValidateSchema
         /\ Rejected(c) /\ calls[c].thrown = calls[c].execErr
         /\ Len(calls[c].pubs) = 2 /\ calls[c].pubs[2] = calls[c].preData
         /\ calls[c].after = calls[c].preData
         /\ calls[c].errAfter = calls[c].thrown
         /\ ~calls[c].loadAfter

(* C16 as amended: such a create or update rejects with the validation error
   after a second publish; when no other call overlaps it, that publish is the
   state the call started on, the error slot holds the validation error and
   loading is false at the rejection. *)
C16_ValidationFailureRollsBackAlone ==
  \A c \in Calls :
    (IsSettled(c) /\ calls[c].op \in {"create", "update"}
       /\ calls[c].execErr.kind = "validation")
      => /\ shouldValidateSchema
         /\ Rejected(c) /\ calls[c].thrown = calls[c].execErr
         /\ Len(calls[c].pubs) = 2 /\ calls[c].after = calls[c].pubs[2]
         /\ calls[c].loads = <<TRUE, FALSE>>
         /\ ~calls[c].overlapped =>
              /\ calls[c].after = calls[c].preData
              /\ calls[c].errAfter = calls[c].thrown /\ ~calls[c].loadAfter

\* an update of an entry of a collection and a create rejected on validation
\* failures, each rolled back
C16_Witness ==
  \E c \in Calls, o \in Calls :
    /\ Rejected(c) /\ calls[c].op = "update" /\ calls[c].thrown.kind = "validation"
    /\ ~calls[c].overlapped /\ IsArray(calls[c].preData)
    /\ calls[c].pubs[1] # calls[c].preData /\ calls[c].after = calls[c].preData
    /\ Rejected(o) /\ calls[o].op = "create" /\ calls[o].thrown.kind = "validation"
    /\ calls[o].pubs[1] # calls[o].preData /\ calls[o].after = calls[o].preData
    /\ error.kind = "validation" /\ ~loading

(* C17: validation runs only when it is enabled and the expected type is not
   none.  With validation off no call fails on validation, and a fetch, create
   or update that no other call overlaps and whose response does not conform to
   the schema resolves, with the response in the data cell and the error slot
   null; a delete never fails on validation, whatever the setting. *)
C17_ValidationOnlyWhenEnabled ==
  \A c \in Calls :
    /\ (calls[c].execErr.kind = "validation")
         => (shouldValidateSchema /\ calls[c].op # "delete")
    /\ (/\ IsSettled(c) /\ ~shouldValidateSchema /\ ~calls[c].overlapped
        /\ calls[c].op \in {"fetch", "create", "update"}
        /\ calls[c].execOk /\ ~ParseOk(calls[c].expectedType, calls[c].execData))
         => /\ Resolved(c)
            /\ Holds(calls[c].after, calls[c].execData)
            /\ calls[c].errAfter = NoError

(* C18: a fetch, create or update to which the transport hands a null value (a
   null body or a no-content response) rejects with an empty-response failure
   and does not leave null in the data cell, whether or not validation is
   enabled. *)
C18_NullResponseIsFailure ==
  \A c \in Calls :
    (IsSettled(c) /\ calls[c].op \in {"fetch", "create", "update"}
       /\ calls[c].execOk /\ calls[c].execData = Null)
      => /\ Rejected(c) /\ calls[c].thrown.kind = "empty"
         /\ ~Holds(calls[c].after, Null)

(* C19: a delete whose transport call resolves, be it with no value at all,
   resolves: it rejects only when the transport call or the decoding of the
   body throws.  With no other call overlapping it, the error slot is then null
   and the optimistic removal is the only publish. *)
C19_DeleteAcceptsAbsentResponse ==
  \A c \in Calls :
    (IsSettled(c) /\ calls[c].op = "delete" /\ ReachedTransport(c)
       /\ calls[c].execErr.kind \notin {"transport", "decode"})
      => /\ Resolved(c)
         /\ ~calls[c].overlapped =>
              (calls[c].errAfter = NoError /\ Len(calls[c].pubs) = 1)

(* C20: a delete(id) of an existing entry that succeeds with no other call
   overlapping it publishes data exactly once: the collection without the
   entries of that id, the others unchanged and in the same order, or null for
   a single item; the publish is made before the transport is called and none
   follows the transport's success. *)
C20_DeletePublishesOnce ==
  \A c \in Calls :
    LET pre == calls[c].preData
        removed == IF IsArray(pre)
                   THEN Coll(SelectSeq(pre.items, LAMBDA e : IdOf(e) # calls[c].id))
                   ELSE Null
    IN /\ (calls[c].op = "delete" /\ AwaitingTransport(c)) => Len(calls[c].pubs) = 1
       /\ (Resolved(c) /\ calls[c].op = "delete" /\ ReachedTransport(c)
             /\ ~calls[c].overlapped)
            => /\ calls[c].pubs = <<removed>>
               /\ removed # pre
               /\ calls[c].before = removed /\ calls[c].after = removed

\* the first of two entries was deleted; the transport answered without a
\* body
C20_Witness ==
  \E c \in Calls :
    /\ Resolved(c) /\ calls[c].op = "delete" /\ ReachedTransport(c) /\ ~calls[c].overlapped
    /\ calls[c].preData = Coll(<<Item(Alice), Item(Bob)>>) /\ calls[c].id = S("1")
    /\ calls[c].execData = Null
    /\ calls[c].pubs = <<Coll(<<Item(Bob)>>)>> /\ data = Coll(<<Item(Bob)>>)

(* C21: when update(id) resolves on a collection, every entry of the current
   state with that id has become exactly the returned item, every entry with
   another id is as it was in the current state, and the promise resolves with
   the returned item. *)
C21_UpdateConfirmsWithServerItem ==
  \A c \in Calls :
    (Resolved(c) /\ calls[c].op = "update" /\ IsArray(calls[c].before))
      => /\ calls[c].retVal = calls[c].execData
         /\ IsArray(calls[c].after)
         /\ Len(calls[c].after.items) = Len(calls[c].before.items)
         /\ \A i \in 1..Len(calls[c].before.items) :
              calls[c].after.items[i] =
                IF IdOf(calls[c].before.items[i]) = calls[c].id
                THEN calls[c].retVal ELSE calls[c].before.items[i]
         /\ calls[c].pubs[Len(calls[c].pubs)] = calls[c].after

\* validation is off and the returned item has no name: the entry loses the
\* name of the payload and of the original item, the other entry is kept
C21_Witness ==
  \E c \in Calls :
    /\ Resolved(c) /\ calls[c].op = "update" /\ calls[c].id = S("1")
    /\ calls[c].preData = Coll(<<Item(Alice), Item(Bob)>>)
    /\ calls[c].pubs[1].items[1].item["name"] = S("A2")
    /\ calls[c].retVal.kind = "item" /\ calls[c].retVal.item["name"] = Absent
    /\ data = Coll(<<calls[c].retVal, Item(Bob)>>)

(* C22: every call whose transport call has settled eventually settles,
   whatever the other calls do, and loading is false whenever all calls made
   have settled. *)
C22_EveryCallSettles ==
  /\ \A c \in Calls : (calls[c].pc = "execDone") ~> IsSettled(c)
  /\ [](Quiescent => ~loading)

\* a fetch and an update overlapped; the update was rejected on a transport
\* failure, the fetch resolved after it, and nothing is left pending
C22_Witness ==
  \E c \in Calls, o \in Calls :
    /\ Quiescent /\ ~loading
    /\ Rejected(c) /\ calls[c].op = "update" /\ calls[c].thrown.kind = "transport"
    /\ calls[c].overlapped
    /\ Resolved(o) /\ calls[o].op = "fetch" /\ calls[o].rank > calls[c].rank

(* C23: update and delete never change the shape of the state, under any
   interleaving: neither the optimistic publish nor the confirming or reverting
   publish of an update or a delete turns a collection into a non-collection or
   a non-collection into a collection. *)
C23_UpdateDeleteKeepShape ==
  \A c \in Calls :
    calls[c].op \in {"update", "delete"} =>
      /\ Len(calls[c].pubs) >= 1 => IsArray(calls[c].pubs[1]) = IsArray(calls[c].preData)
      /\ IsSettled(c) /\ Len(calls[c].pubs) = 2 =>
           IsArray(calls[c].after) = IsArray(calls[c].before)

\* the optimistic and the confirming publish of an update or a delete keep the
\* shape of the state they are applied to; the reverting publish has the shape
\* the state had when the call was made, which is the current shape when no
\* other call overlapped
C23_ShapeKeptExceptStaleRollback ==
  \A c \in Calls :
    calls[c].op \in {"update", "delete"} =>
      /\ Len(calls[c].pubs) >= 1 => IsArray(calls[c].pubs[1]) = IsArray(calls[c].preData)
      /\ Resolved(c) /\ Len(calls[c].pubs) = 2 =>
           /\ calls[c].after = calls[c].pubs[2]
           /\ IsArray(calls[c].after) = IsArray(calls[c].before)
      /\ Rejected(c) /\ Len(calls[c].pubs) = 2 =>
           /\ calls[c].after = calls[c].pubs[2]
           /\ IsArray(calls[c].after) = IsArray(calls[c].preData)
           /\ ~calls[c].overlapped => IsArray(calls[c].after) = IsArray(calls[c].before)

\* a delete on a collection fails after a fetch by id replaced the state by a
\* single item
C23_Witness ==
  \E c \in Calls, o \in Calls :
    /\ Rejected(c) /\ calls[c].op = "delete" /\ Len(calls[c].pubs) = 2
    /\ IsArray(calls[c].preData) /\ ~IsArray(calls[c].before) /\ IsArray(calls[c].after)
    /\ Resolved(o) /\ calls[o].op = "fetch" /\ calls[o].rank < calls[c].rank

(* C24: the loading flag brackets the whole operation: every data publish made
   by a create, update or delete that reaches the transport comes after the
   call has published loading = true and before it publishes loading = false. *)
C24_LoadingBracketsPublishes ==
  \A c \in Calls :
    calls[c].op \in {"create", "update", "delete"} /\ ReachedTransport(c) =>
      \A i \in 1..Len(calls[c].pubs) :
        SubSeq(calls[c].loads, 1, calls[c].pubAt[i]) = <<TRUE>>

\* a token of the string is the prefix of generated temporary ids
MentionsTempId(str) == \E i \in 1..Len(str) : str[i] = tempIdPrefix

(* C25: create sends the caller's payload as the body of a POST to
   base/resourceName, so no generated temporary id is in the request's address
   or body; update sends the payload as it was given, not the merged optimistic
   item, as the body of a PUT to base/resourceName/id. *)
C25_RequestsCarryThePayload ==
  \A c \in Calls :
    ReachedTransport(c) =>
      /\ calls[c].op = "create" =>
           /\ calls[c].method = "POST"
           /\ calls[c].url = <<"https://api.test.com", "/", "users">>
           /\ calls[c].body = calls[c].payload
           /\ ~MentionsTempId(calls[c].body["id"])
      /\ calls[c].op = "update" =>
           /\ calls[c].method = "PUT"
           /\ calls[c].url = <<"https://api.test.com", "/", "users", "/">> \o calls[c].id
           /\ calls[c].body = calls[c].payload
      /\ ~MentionsTempId(calls[c].url)

\* a create whose provisional entry carries a generated id and an update whose
\* optimistic item differs from its payload have both issued their request
C25_Witness ==
  \E c \in Calls, o \in Calls :
    /\ calls[c].op = "create" /\ ReachedTransport(c) /\ Truthy(calls[c].tempItemId)
    /\ Holds(calls[c].pubs[1], TempItem(calls[c].payload, calls[c].tempItemId))
    /\ TempItem(calls[c].payload, calls[c].tempItemId) # Item(calls[c].payload)
    /\ calls[o].op = "update" /\ ReachedTransport(o)
    /\ ~Holds(calls[o].pubs[1], Item(calls[o].payload))

(* C26: constructing the engine with a missing baseUrl, endpoint or fetcher
   throws a configuration error from the constructor itself; the error slot of
   the object is not set and the `new` expression yields no engine. *)
C26_MissingConfigThrows ==
  (/\ ctor.pc \in {"constructed", "thrown"}
   /\ \/ ctor.input.baseUrl = Absent
      \/ ctor.input.endpoint = Absent
      \/ ~ctor.input.fetcher)
  => /\ ctor.pc = "thrown"
     /\ ctor.thrown = Err("config", 0)
     /\ ctor.this.error = NoError
     /\ ~ctor.instance

\* the constructor has run on an input whose only defect is the missing fetcher
C26_Witness ==
  /\ ctor.pc = "thrown"
  /\ Truthy(ctor.input.baseUrl) /\ Truthy(ctor.input.endpoint) /\ ~ctor.input.fetcher
  /\ ctor.input.initialData # Null

(* C27: execute called while canExecute$ is false resolves with undefined
   without invoking the wrapped function, and leaves isExecuting$ false and
   executeError$ unchanged. *)
C27_RefusedExecuteLeavesFalse ==
  \A e \in Execs :
    Refused(e) =>
      /\ command.execs[e].outcome = "resolved" /\ command.execs[e].retVal = Absent
      /\ ~command.execs[e].invoked
      /\ command.execs[e].isExecAfter = FALSE
      /\ command.execs[e].errAfter = command.execs[e].errBefore

\* a refused execute resolves with undefined without invoking the wrapped
\* function and writes neither isExecuting$ nor executeError$: isExecuting$ is
\* false after it unless another call of execute has started the function
C27_RefusedExecuteWritesNothing ==
  \A e \in Execs :
    Refused(e) =>
      /\ command.execs[e].outcome = "resolved" /\ command.execs[e].retVal = Absent
      /\ ~command.execs[e].invoked
      /\ command.execs[e].isExecAfter = command.execs[e].isExecBefore
      /\ command.execs[e].errAfter = command.execs[e].errBefore
      /\ command.execs[e].isExecAfter =>
           \E o \in Execs : o # e /\ command.execs[o].invoked

\* one execute is refused because the subject holds false, after an earlier
\* execute failed; another is refused while the wrapped function is running
C27_Witness ==
  \E e \in Execs, o \in Execs :
    /\ Refused(e) /\ ~command.execs[e].isExecAfter
    /\ command.execs[e].errAfter # NoError
    /\ Refused(o) /\ command.execs[o].isExecAfter

(* C28: isExecuting$ is true from the moment the wrapped function is started
   until it settles, and false again once every execute has returned; canExecute$
   is the supplied condition and not isExecuting$, so it is false during an
   execution and equal to the condition after it. *)
C28_IsExecutingWhileFnRuns ==
  /\ \A e \in Execs : FnRunning(e) => command.isExecuting
  /\ (\A e \in Execs : ~Executing(e)) => ~command.isExecuting
  /\ (\E e \in Execs : FnRunning(e)) => ~CanExecuteNow(command)
  /\ (\A e \in Execs : ~Executing(e)) => CanExecuteNow(command) = command.canExecute

(* C29: when the wrapped function rejects, execute rejects with the same error,
   executeError$ holds that error and isExecuting$ is false; an execute that is
   allowed to run resets executeError$ to null before it invokes the wrapped
   function. *)
C29_FailureRecordedThenReset ==
  \A e \in Execs :
    /\ (command.execs[e].pc = "settled" /\ command.execs[e].fnError # NoError) =>
         /\ command.execs[e].outcome = "rejected"
         /\ command.execs[e].thrown = command.execs[e].fnError
         /\ command.execs[e].errAfter = command.execs[e].fnError
         /\ command.execs[e].isExecAfter = FALSE
    /\ command.execs[e].invoked => command.execs[e].errAtInvoke = NoError

\* an execute failed and a later one was allowed to run while executeError$
\* still held an error
C29_Witness ==
  \E e \in Execs, o \in Execs :
    /\ command.execs[e].pc = "settled" /\ command.execs[e].outcome = "rejected"
    /\ command.execs[e].fnError = Err("fn", e)
    /\ o # e /\ command.execs[o].invoked
    /\ command.execs[o].errBeforeInvoke # NoError

(* C30: the value of selectedItem$ is always derived from the current data and
   the selected id: an entry of the data collection whose id is the selected
   id, and null when no id is selected, the data is not a collection or no
   entry has that id; it is recomputed after every data publish and every
   selectItem. *)
C30_SelectedItemIsDerived ==
  LET d == viewModel.data
      matches == IF IsArray(d) /\ Truthy(viewModel.selectedItemId)
                 THEN {i \in 1..Len(d.items) : IdOf(d.items[i]) = viewModel.selectedItemId}
                 ELSE {}
  IN IF matches = {} THEN viewModel.emitted = Null
     ELSE \E i \in matches : viewModel.emitted = d.items[i]

(* C31: create, update and delete publish the optimistic state before the
   transport is invoked: the first publish of a call that reached the transport
   is the optimistic state computed from the state it was called on, it is made
   before the call's loading = true, and it is what the data cell holds while
   the request is awaited and no other call is in flight. *)
C31_OptimisticBeforeTransport ==
  \A c \in Calls :
    (calls[c].op \in {"create", "update", "delete"} /\ ReachedTransport(c)) =>
      /\ Len(calls[c].pubs) >= 1
      /\ calls[c].pubAt[1] = 0
      /\ calls[c].op = "create" =>
           calls[c].pubs[1] =
             CreateOptimistic(calls[c].preData, TempItem(calls[c].payload, calls[c].tempItemId))
      /\ calls[c].op = "update" =>
           calls[c].pubs[1] = UpdateOptimistic(calls[c].preData, calls[c].id, calls[c].payload)
      /\ calls[c].op = "delete" =>
           calls[c].pubs[1] = DeleteOptimistic(calls[c].preData, calls[c].id)
      /\ (AwaitingTransport(c) /\ ~calls[c].overlapped) => data = calls[c].pubs[1]

\* a delete and an update are awaiting their answers, each having published a
\* state that differs from the one it was called on
C31_Witness ==
  \E c \in Calls, o \in Calls :
    /\ calls[c].op = "delete" /\ AwaitingTransport(c)
    /\ calls[c].pubs[1] # calls[c].preData
    /\ calls[o].op = "update" /\ AwaitingTransport(o)
    /\ calls[o].pubs[1] # calls[o].preData /\ data = calls[o].pubs[1]

(* C32: when an update fails after its target was removed from the state while
   the request was in flight, the rollback publishes the snapshot taken when the
   update was called: the removed entry is in the state again, and every entry
   is the one the snapshot had at that place, so whatever else changed in
   between is undone. *)
C32_FailedUpdateRestoresSnapshot ==
  \A c \in Calls :
    (/\ Rejected(c) /\ calls[c].op = "update" /\ Len(calls[c].pubs) = 2
     /\ TargetAbsent(calls[c].before, calls[c].id)) =>
      LET pre == calls[c].preData
          post == calls[c].after
      IN /\ post = calls[c].pubs[2]
         /\ ~TargetAbsent(post, calls[c].id)
         /\ Holds(post, calls[c].itemToUpdateOriginal)
         /\ IsArray(post) = IsArray(pre)
         /\ ~IsArray(pre) => post = pre
         /\ IsArray(pre) =>
              /\ Len(post.items) = Len(pre.items)
              /\ \A i \in 1..Len(pre.items) :
                   post.items[i] = IF IdOf(pre.items[i]) = calls[c].id
                                   THEN calls[c].itemToUpdateOriginal
                                   ELSE pre.items[i]
              /\ DistinctIds(pre) => post = pre

\* an update of an entry of a collection failed after a delete of the same
\* entry had succeeded, and the entry is back
C32_Witness ==
  \E c \in Calls, o \in Calls :
    /\ Rejected(c) /\ calls[c].op = "update" /\ Len(calls[c].pubs) = 2
    /\ IsArray(calls[c].preData) /\ Len(calls[c].preData.items) = 2
    /\ TargetAbsent(calls[c].before, calls[c].id)
    /\ Resolved(o) /\ calls[o].op = "delete" /\ calls[o].id = calls[c].id
    /\ calls[o].rank < calls[c].rank
    /\ calls[c].after = calls[c].preData /\ data = calls[c].after

(* C33: fetch takes its address and expected shape from its argument: without
   an id it requests base/resourceName and expects a collection; with one id
   it requests base/resourceName/id and expects a single item; with an array
   of ids it requests base/resourceName?ids= followed by the ids joined by
   commas and expects a collection; the method is always GET. *)
C33_FetchTargetFollowsArgument ==
  \A c \in Calls :
    calls[c].op = "fetch" =>
      /\ calls[c].method = "GET"
      /\ (calls[c].id = Absent /\ calls[c].ids = <<>>) =>
           /\ calls[c].url = <<"https://api.test.com", "/", "users">>
           /\ calls[c].expectedType = "collection"
      /\ calls[c].id # Absent =>
           /\ calls[c].url = <<"https://api.test.com", "/", "users", "/">> \o calls[c].id
           /\ calls[c].expectedType = "single"
      /\ calls[c].ids = <<S("1"), S("2")>> =>
           /\ calls[c].url = <<"https://api.test.com", "/", "users", "?ids=", "1", ",", "2">>
           /\ calls[c].expectedType = "collection"
      /\ calls[c].ids = <<S("3")>> =>
           /\ calls[c].url = <<"https://api.test.com", "/", "users", "?ids=", "3">>
           /\ calls[c].expectedType = "collection"

\* a fetch by an array of two ids and a fetch by one id have issued their requests
C33_Witness ==
  \E c \in Calls, o \in Calls :
    /\ calls[c].op = "fetch" /\ Len(calls[c].ids) = 2 /\ AwaitingTransport(c)
    /\ calls[o].op = "fetch" /\ calls[o].id = S("2") /\ ReachedTransport(o)

(* C34: after construction, for every accepted baseUrl and endpoint, the stored
   base does not end with a slash and the stored resource name does not begin
   with one, so a location is the base, one slash and the resource name, with
   no doubled separator. *)
C34_StoredPartsAreNormalized ==
  ctor.pc = "constructed" =>
    LET base == ctor.this.baseUrl
        name == ctor.this.endpoint
        loc == LocationOf(ctor.this, Absent)
    IN /\ base = <<>> \/ base[Len(base)] # "/"
       /\ name = <<>> \/ name[1] # "/"
       /\ \A i \in 1..(Len(loc) - 1) : ~(loc[i] = "/" /\ loc[i + 1] = "/")

(* C35: a Command never runs two executions of its wrapped function at the same
   time, also when two calls of execute are made back to back before the first
   has passed its can-execute test: at most one invocation is in progress at
   any moment and isExecuting$ is true whenever one is. *)
C35_AtMostOneExecution ==
  /\ Cardinality({e \in Execs : FnRunning(e)}) <= 1
  /\ (\E e \in Execs : FnRunning(e)) => command.isExecuting

(* C36: no confirmed create is lost: whenever a create made on a collection
   resolves with the item the server returned, that item is in the state at
   the moment of resolution, whatever a fetch or the rollback of another call
   did to the state while the create was in flight. *)
C36_ConfirmedCreateIsInState ==
  \A c \in Calls :
    (/\ Resolved(c) /\ calls[c].op = "create" /\ IsArray(calls[c].preData)
     /\ calls[c].retVal.kind = "item") =>
      Holds(calls[c].after, calls[c].retVal)

\* what C37 assumes of the callers and of the server
C37_Assumptions ==
  /\ \A c \in Calls :
       /\ calls[c].op = "create" =>
            /\ calls[c].payload["id"] = Absent
               \/ TargetAbsent(calls[c].preData, calls[c].payload["id"])
            /\ \A o \in Calls :
                 (o # c /\ calls[o].op = "create" /\ Truthy(calls[c].tempItemId)) =>
                   calls[o].tempItemId # calls[c].tempItemId
            /\ calls[c].execOk => IdOf(calls[c].execData) = ServerId(c)
       /\ (calls[c].op = "update" /\ calls[c].execOk) =>
            IdOf(calls[c].execData) = calls[c].id
       /\ (calls[c].op = "fetch" /\ calls[c].execOk /\ IsArray(calls[c].execData)) =>
            DistinctIds(calls[c].execData)

(* C37: ids stay unique in a collection: when every create payload has no id or
   an id that is not in the state, generated temporary ids are fresh, the
   server answers a create with a fresh id and an update with the same id, and
   fetch returns distinct ids, every collection published has pairwise distinct
   ids, under every interleaving. *)
C37_PublishedIdsAreDistinct ==
  C37_Assumptions =>
    \A c \in Calls : \A i \in 1..Len(calls[c].pubs) :
      IsArray(calls[c].pubs[i]) =>
        /\ ~AnyNull(calls[c].pubs[i].items)
        /\ DistinctIds(calls[c].pubs[i])

(* C38: the confirming publish of a successful create on a collection replaces
   exactly one entry, the provisional one, by the returned item and leaves every
   other entry of the current state as it is, also when the payload carries an
   id that an entry of the collection already has. *)
C38_ConfirmReplacesOnlyProvisional ==
  \A c \in Calls :
    LET pre == calls[c].before
        post == calls[c].after
        tempItem == TempItem(calls[c].payload, calls[c].tempItemId)
    IN (/\ Resolved(c) /\ calls[c].op = "create"
        /\ IsArray(pre) /\ Holds(pre, tempItem)) =>
         /\ IsArray(post) /\ Len(post.items) = Len(pre.items)
         /\ \E k \in 1..Len(pre.items) :
              /\ pre.items[k] = tempItem
              /\ post.items[k] = calls[c].retVal
              /\ \A i \in 1..Len(pre.items) : i # k => post.items[i] = pre.items[i]

(* C39: the optimistic publish of update(id, payload) on a collection keeps the
   id of every entry, the targeted one included, and the length and order of
   the collection, whatever the payload carries; so when the update resolves
   with no other call overlapping it, the entry at the target's position is the
   item the server returned. *)
C39_UpdateKeepsTargetId ==
  \A c \in Calls :
    LET pre == calls[c].preData IN
    (/\ calls[c].op = "update" /\ IsArray(pre) /\ Len(calls[c].pubs) >= 1) =>
      LET opt == calls[c].pubs[1] IN
      /\ IsArray(opt) /\ Len(opt.items) = Len(pre.items)
      /\ \A i \in 1..Len(pre.items) : IdOf(opt.items[i]) = IdOf(pre.items[i])
      /\ (Resolved(c) /\ ~calls[c].overlapped) =>
           /\ IsArray(calls[c].after)
           /\ Len(calls[c].after.items) = Len(pre.items)
           /\ \A i \in 1..Len(pre.items) :
                calls[c].after.items[i] =
                  IF IdOf(pre.items[i]) = calls[c].id THEN calls[c].retVal
                  ELSE pre.items[i]

====
